---- MODULE Spec2Model ----
(***************************************************************************)
(* Model of ManifestSyncTest._sync_manifest (src/test_manifest_sync.py)    *)
(* together with the harness operations that bring the temporary git       *)
(* repository into the state that `git status --porcelain` reports.        *)
(*                                                                         *)
(* Strings are sequences of one-character strings, so that the slicing     *)
(* line[:2] / line[3:], str.strip, `in` and str.endswith are computed.     *)
(***************************************************************************)
EXTENDS Integers, Sequences, FiniteSets, TLC

VARIABLES head, index, work, isRepo, manifest, pc, strategyArg, queries, result,
          todos, response

\* the state of the todo API (src/api_example.py), a program of its own
apiVars == <<todos, response>>

\* the state of the manifest sync harness
syncVars == <<head, index, work, isRepo, manifest, pc, strategyArg, queries, result>>

vars == <<head, index, work, isRepo, manifest, pc, strategyArg, queries, result,
          todos, response>>

(* ------------------------------ bounds --------------------------------- *)

\* number of distinct file contents a path can hold (0 is "no file")
NumContents == 2

\* largest number of entries of the manifest's "files" mapping
MaxManifest == 2

\* create_todo is not taken once the todo list holds this many todos
MaxTodos == 3

(* ------------------------------ strings -------------------------------- *)

A_PY == <<"a", ".", "p", "y">>

B_MD == <<"b", ".", "m", "d">>

DOT_ENV == <<".", "e", "n", "v">>

\* the paths of the repository, in the byte order git sorts its output by
PathOrder == <<DOT_ENV, A_PY, B_MD>>

Paths == {PathOrder[k] : k \in 1..Len(PathOrder)}

Contents == 0..NumContents

RECURSIVE LStrip(_)
LStrip(s) == IF s # <<>> /\ Head(s) = " " THEN LStrip(Tail(s)) ELSE s

RECURSIVE RStrip(_)
RStrip(s) ==
    IF s # <<>> /\ s[Len(s)] = " " THEN RStrip(SubSeq(s, 1, Len(s) - 1)) ELSE s

\* str.strip()
Strip(s) == LStrip(RStrip(s))

\* c in s, for a one-character c
CharIn(c, s) == \E k \in 1..Len(s) : s[k] = c

\* s.endswith(suffix)
EndsWith(s, suffix) ==
    /\ Len(s) >= Len(suffix)
    /\ SubSeq(s, Len(s) - Len(suffix) + 1, Len(s)) = suffix

\* s[n:]
SliceFrom(s, n) == SubSeq(s, n + 1, Len(s))

\* s[:n]
SliceTo(s, n) == SubSeq(s, 1, IF n < Len(s) THEN n ELSE Len(s))

SeqToSet(s) == {s[k] : k \in 1..Len(s)}

(* -------------------- the version-control collaborator ----------------- *)

\* the .gitignore of the harness: *.pyc, .env (directory rules need a "/")
IgnoreMatch(p) == p = DOT_ENV \/ EndsWith(p, <<".", "p", "y", "c">>)

\* index-slot letter: HEAD against the index
XCode(p) ==
    IF head[p] = index[p] THEN " "
    ELSE IF head[p] = 0 THEN "A"
    ELSE IF index[p] = 0 THEN "D"
    ELSE "M"

\* worktree-slot letter: the index against the working tree
YCode(p) ==
    IF index[p] = 0 \/ index[p] = work[p] THEN " "
    ELSE IF work[p] = 0 THEN "D"
    ELSE "M"

\* q is staged-new with the very content p had in HEAD, p is staged-deleted
RenamedFrom(p, q) ==
    /\ p # q
    /\ head[p] # 0 /\ index[p] = 0
    /\ head[q] = 0 /\ index[q] = head[p]

IsRenameTarget(q) == \E p \in Paths : RenamedFrom(p, q)

IsRenameSource(p) == \E q \in Paths : RenamedFrom(p, q)

RenameSourceOf(q) == CHOOSE p \in Paths : RenamedFrom(p, q)

Untracked(p) == index[p] = 0 /\ work[p] # 0

\* the porcelain lines of one tracked path (none, or one)
TrackedLines(p) ==
    IF IsRenameSource(p) THEN <<>>
    ELSE IF IsRenameTarget(p)
    THEN << <<"R", YCode(p), " ">> \o RenameSourceOf(p)
              \o <<" ", "-", ">", " ">> \o p >>
    ELSE IF XCode(p) = " " /\ YCode(p) = " " THEN <<>>
    ELSE << <<XCode(p), YCode(p), " ">> \o p >>

UntrackedLines(p) ==
    IF Untracked(p) /\ ~IgnoreMatch(p) THEN << <<"?", "?", " ">> \o p >> ELSE <<>>

RECURSIVE TrackedFrom(_)
TrackedFrom(k) ==
    IF k > Len(PathOrder) THEN <<>>
    ELSE TrackedLines(PathOrder[k]) \o TrackedFrom(k + 1)

RECURSIVE UntrackedFrom(_)
UntrackedFrom(k) ==
    IF k > Len(PathOrder) THEN <<>>
    ELSE UntrackedLines(PathOrder[k]) \o UntrackedFrom(k + 1)

\* stdout of `git status --porcelain`: empty when the command fails
\* (check=False, the return code is never looked at)
RunGitStatus == IF isRepo THEN TrackedFrom(1) \o UntrackedFrom(1) ELSE <<>>

(* --------------------------- _sync_manifest ---------------------------- *)

EmptyChanges == [added |-> <<>>, modified |-> <<>>, deleted |-> <<>>, conflicts |-> <<>>]

KeyIndex(gf, name) ==
    IF \E k \in 1..Len(gf) : gf[k].filename = name
    THEN CHOOSE k \in 1..Len(gf) : gf[k].filename = name
    ELSE 0

\* git_files[filename] = status.strip(): a dict keeps a key's first position
DictSet(gf, name, st) ==
    IF KeyIndex(gf, name) = 0
    THEN Append(gf, [filename |-> name, status |-> st])
    ELSE [gf EXCEPT ![KeyIndex(gf, name)].status = st]

RECURSIVE ParseStatus(_, _, _)
ParseStatus(lines, k, gf) ==
    IF k > Len(lines) THEN gf
    ELSE IF lines[k] = <<>> THEN ParseStatus(lines, k + 1, gf)
    ELSE ParseStatus(lines, k + 1,
             DictSet(gf, SliceFrom(lines[k], 3), Strip(SliceTo(lines[k], 2))))

HasKey(gf, name) == KeyIndex(gf, name) # 0

\* MergeLoop with the elif chain written as independent ifs
RECURSIVE MergeLoopNoElif(_, _, _)
MergeLoopNoElif(gf, k, ch) ==
    IF k > Len(gf) THEN ch
    ELSE LET f == gf[k].filename
             st == gf[k].status
             c1 == IF CharIn("M", st) THEN [ch EXCEPT !.modified = Append(@, f)] ELSE ch
             c2 == IF CharIn("A", st) THEN [c1 EXCEPT !.added = Append(@, f)] ELSE c1
             c3 == IF CharIn("D", st) THEN [c2 EXCEPT !.deleted = Append(@, f)] ELSE c2
             c4 == IF st = <<"?", "?">> THEN [c3 EXCEPT !.added = Append(@, f)] ELSE c3
         IN MergeLoopNoElif(gf, k + 1, c4)

\* MergeLoop testing the status for equality with 'M' instead of containment
RECURSIVE MergeLoopExactM(_, _, _)
MergeLoopExactM(gf, k, ch) ==
    IF k > Len(gf) THEN ch
    ELSE LET f == gf[k].filename
             st == gf[k].status
         IN MergeLoopExactM(gf, k + 1,
                IF st = <<"M">> THEN [ch EXCEPT !.modified = Append(@, f)]
                ELSE IF CharIn("A", st) THEN [ch EXCEPT !.added = Append(@, f)]
                ELSE IF CharIn("D", st) THEN [ch EXCEPT !.deleted = Append(@, f)]
                ELSE IF st = <<"?", "?">> THEN [ch EXCEPT !.added = Append(@, f)]
                ELSE ch)

RECURSIVE MergeLoop(_, _, _)
MergeLoop(gf, k, ch) ==
    IF k > Len(gf) THEN ch
    ELSE LET f == gf[k].filename
             st == gf[k].status
         IN MergeLoop(gf, k + 1,
                IF CharIn("M", st) THEN [ch EXCEPT !.modified = Append(@, f)]
                ELSE IF CharIn("A", st) THEN [ch EXCEPT !.added = Append(@, f)]
                ELSE IF CharIn("D", st) THEN [ch EXCEPT !.deleted = Append(@, f)]
                ELSE IF st = <<"?", "?">> THEN [ch EXCEPT !.added = Append(@, f)]
                ELSE ch)

RECURSIVE OverwriteLoop(_, _, _, _)
OverwriteLoop(files, gf, k, ch) ==
    IF k > Len(files) THEN ch
    ELSE OverwriteLoop(files, gf, k + 1,
             IF HasKey(gf, files[k])
             THEN [ch EXCEPT !.modified = Append(@, files[k])]
             ELSE [ch EXCEPT !.added = Append(@, files[k])])

\* SelectiveLoop without the suffix test
RECURSIVE SelectiveLoopAll(_, _, _)
SelectiveLoopAll(gf, k, ch) ==
    IF k > Len(gf) THEN ch
    ELSE SelectiveLoopAll(gf, k + 1,
             [ch EXCEPT !.modified = Append(@, gf[k].filename)])

RECURSIVE SelectiveLoop(_, _, _)
SelectiveLoop(gf, k, ch) ==
    IF k > Len(gf) THEN ch
    ELSE SelectiveLoop(gf, k + 1,
             IF EndsWith(gf[k].filename, <<".", "p", "y">>)
             THEN [ch EXCEPT !.modified = Append(@, gf[k].filename)]
             ELSE ch)

Classify(strategy, files, gf) ==
    IF strategy = "merge" THEN MergeLoop(gf, 1, EmptyChanges)
    ELSE IF strategy = "overwrite" THEN OverwriteLoop(files, gf, 1, EmptyChanges)
    ELSE IF strategy = "selective" THEN SelectiveLoop(gf, 1, EmptyChanges)
    ELSE EmptyChanges

\* the value _sync_manifest returns; it has no other key
SyncResult(strategy, files, lines) ==
    [status |-> "success",
     strategy |-> strategy,
     changes |-> Classify(strategy, files, ParseStatus(lines, 1, <<>>))]

(* ------------------------------ the state ------------------------------ *)

Strategies == {"merge", "overwrite", "selective", "bogus"}

NoResult == [status |-> "none", strategy |-> "none", changes |-> EmptyChanges]

\* sequences of distinct paths of length at most MaxManifest
Manifests ==
    {m \in UNION {[1..n -> Paths] : n \in 0..MaxManifest} :
        \A j, k \in 1..Len(m) : j # k => m[j] # m[k]}

\* the module-level list of api_example.py
InitialTodos ==
    << [id |-> 1, title |-> "Learn Flask", completed |-> FALSE],
       [id |-> 2, title |-> "Build an API", completed |-> FALSE] >>

NoResponse == [code |-> 0, body |-> "none"]

Init ==
    /\ todos = InitialTodos
    /\ response = NoResponse
    /\ head = [p \in Paths |-> 0]
    /\ index = [p \in Paths |-> 0]
    /\ work = [p \in Paths |-> 0]
    /\ isRepo \in BOOLEAN
    /\ manifest = <<>>
    /\ pc = "setup"
    /\ strategyArg = "none"
    /\ queries = 0
    /\ result = NoResult

\* _write_manifest: json.dumps keeps the mapping's key order
WriteManifest(m) ==
    /\ pc = "setup"
    /\ m # manifest
    /\ manifest' = m
    /\ UNCHANGED <<head, index, work, isRepo, pc, strategyArg, queries, result, todos, response>>

\* _create_file: creates the file or replaces its content
CreateFile(p, c) ==
    /\ pc = "setup"
    /\ c # 0 /\ work[p] # c
    /\ work' = [work EXCEPT ![p] = c]
    /\ UNCHANGED <<head, index, isRepo, manifest, pc, strategyArg, queries, result, todos, response>>

\* Path.unlink
Unlink(p) ==
    /\ pc = "setup"
    /\ work[p] # 0
    /\ work' = [work EXCEPT ![p] = 0]
    /\ UNCHANGED <<head, index, isRepo, manifest, pc, strategyArg, queries, result, todos, response>>

\* _run_git(['add', p]): an ignored path is refused
GitAdd(p) ==
    /\ pc = "setup" /\ isRepo
    /\ ~IgnoreMatch(p)
    /\ index[p] # work[p]
    /\ index' = [index EXCEPT ![p] = work[p]]
    /\ UNCHANGED <<head, work, isRepo, manifest, pc, strategyArg, queries, result, todos, response>>

\* _run_git(['add', '.']): ignored paths are skipped
GitAddAll ==
    /\ pc = "setup" /\ isRepo
    /\ \E p \in Paths : ~IgnoreMatch(p) /\ index[p] # work[p]
    /\ index' = [p \in Paths |-> IF IgnoreMatch(p) THEN index[p] ELSE work[p]]
    /\ UNCHANGED <<head, work, isRepo, manifest, pc, strategyArg, queries, result, todos, response>>

\* _run_git(['commit', '-m', ...])
GitCommit ==
    /\ pc = "setup" /\ isRepo
    /\ head # index
    /\ head' = index
    /\ UNCHANGED <<index, work, isRepo, manifest, pc, strategyArg, queries, result, todos, response>>

\* _run_git(['mv', p, q])
GitMv(p, q) ==
    /\ pc = "setup" /\ isRepo
    /\ p # q /\ ~IgnoreMatch(q)
    /\ index[p] # 0 /\ work[p] # 0
    /\ index[q] = 0 /\ work[q] = 0
    /\ index' = [index EXCEPT ![q] = index[p], ![p] = 0]
    /\ work' = [work EXCEPT ![q] = work[p], ![p] = 0]
    /\ UNCHANGED <<head, isRepo, manifest, pc, strategyArg, queries, result, todos, response>>

\* one call of _sync_manifest(strategy), from its first line to its return
SyncManifest(strategy) ==
    /\ pc' = "done"
    /\ strategyArg' = strategy
    /\ queries' = 1
    /\ result' = SyncResult(strategy, manifest, RunGitStatus)
    /\ UNCHANGED <<head, index, work, isRepo, manifest, todos, response>>

Next ==
    \/ \E m \in Manifests : WriteManifest(m)
    \/ \E p \in Paths, c \in Contents : CreateFile(p, c)
    \/ \E p \in Paths : Unlink(p)
    \/ \E p \in Paths : GitAdd(p)
    \/ GitAddAll
    \/ GitCommit
    \/ \E p, q \in Paths : GitMv(p, q)
    \/ \E s \in Strategies : SyncManifest(s)

Spec == Init /\ [][Next]_vars

(* ------------------------------ the todo API --------------------------- *)

Titles == {"Learn Flask", "Build an API", "Write tests"}

EmptyData == [k \in {} |-> FALSE]

\* the JSON bodies of a request: any subset of the keys title and completed
Bodies ==
    {EmptyData}
        \cup {[title |-> t] : t \in Titles}
        \cup {[completed |-> c] : c \in BOOLEAN}
        \cup {[title |-> t, completed |-> c] : t \in Titles, c \in BOOLEAN}

\* the ids a request can name
TodoIds == 1..(MaxTodos + 1)

\* data.get(key, default)
DictGet(data, key, default) == IF key \in DOMAIN data THEN data[key] ELSE default

\* next((t for t in todos if t['id'] == todo_id), None), as an index (0: None)
FindTodo(todo_id) ==
    IF \E k \in 1..Len(todos) : todos[k].id = todo_id
    THEN CHOOSE k \in 1..Len(todos) :
             /\ todos[k].id = todo_id
             /\ \A j \in 1..(k - 1) : todos[j].id # todo_id
    ELSE 0

\* [t for t in todos if t['id'] != todo_id]
RECURSIVE WithoutId(_, _)
WithoutId(ts, todo_id) ==
    IF ts = <<>> THEN <<>>
    ELSE IF Head(ts).id # todo_id THEN <<Head(ts)>> \o WithoutId(Tail(ts), todo_id)
    ELSE WithoutId(Tail(ts), todo_id)

NewTodo(data) ==
    [id |-> Len(todos) + 1,
     title |-> data["title"],
     completed |-> DictGet(data, "completed", FALSE)]

\* GET /api/todos
get_todos ==
    /\ response' = [code |-> 200, body |-> todos]
    /\ UNCHANGED <<todos, syncVars>>

\* GET /api/todos/<todo_id>
get_todo(todo_id) ==
    /\ response' = IF FindTodo(todo_id) # 0
                   THEN [code |-> 200, body |-> todos[FindTodo(todo_id)]]
                   ELSE [code |-> 404, body |-> "Todo not found"]
    /\ UNCHANGED <<todos, syncVars>>

\* POST /api/todos
create_todo(data) ==
    /\ Len(todos) < MaxTodos
    /\ IF data = EmptyData \/ "title" \notin DOMAIN data
       THEN /\ response' = [code |-> 400, body |-> "Title is required"]
            /\ UNCHANGED todos
       ELSE /\ todos' = Append(todos, NewTodo(data))
            /\ response' = [code |-> 201, body |-> NewTodo(data)]
    /\ UNCHANGED syncVars

\* PUT /api/todos/<todo_id>
update_todo(todo_id, data) ==
    /\ IF FindTodo(todo_id) = 0
       THEN /\ response' = [code |-> 404, body |-> "Todo not found"]
            /\ UNCHANGED todos
       ELSE LET k == FindTodo(todo_id)
                t == [todos[k] EXCEPT
                         !.title = DictGet(data, "title", @),
                         !.completed = DictGet(data, "completed", @)]
            IN /\ todos' = [todos EXCEPT ![k] = t]
               /\ response' = [code |-> 200, body |-> t]
    /\ UNCHANGED syncVars

\* DELETE /api/todos/<todo_id>
delete_todo(todo_id) ==
    /\ todos' = WithoutId(todos, todo_id)
    /\ response' = [code |-> 204, body |-> "none"]
    /\ UNCHANGED syncVars

ApiNext ==
    \/ get_todos
    \/ \E i \in TodoIds : get_todo(i)
    \/ \E d \in Bodies : create_todo(d)
    \/ \E i \in TodoIds, d \in Bodies : update_todo(i, d)
    \/ \E i \in TodoIds : delete_todo(i)

\* the API process starts with its module-level list; the sync harness is
\* another program and does not run
ApiInit == Init /\ isRepo = TRUE

ApiSpec == ApiInit /\ [][ApiNext]_vars

(* ------------------- what the working tree reports -------------------- *)

Done == pc = "done"

Changes == result.changes

InAdded(e) == e \in SeqToSet(Changes.added)

InModified(e) == e \in SeqToSet(Changes.modified)

InDeleted(e) == e \in SeqToSet(Changes.deleted)

InConflicts(e) == e \in SeqToSet(Changes.conflicts)

AllEntries ==
    SeqToSet(Changes.added) \cup SeqToSet(Changes.modified)
        \cup SeqToSet(Changes.deleted) \cup SeqToSet(Changes.conflicts)

InSomeSequence(e) == e \in AllEntries

\* the working tree reports a status for path p (a rename is reported for its
\* new path; an ignored untracked file and a clean file are not reported)
Reported(p) ==
    /\ isRepo
    /\ \/ ~IsRenameSource(p) /\ (IsRenameTarget(p) \/ XCode(p) # " " \/ YCode(p) # " ")
       \/ Untracked(p) /\ ~IgnoreMatch(p)

\* the two status slots the working tree reports for p
Slots(p) ==
    IF Untracked(p) /\ ~IgnoreMatch(p) THEN <<"?", "?">>
    ELSE IF IsRenameTarget(p) THEN <<"R", YCode(p)>>
    ELSE <<XCode(p), YCode(p)>>

\* what stands for p in a ChangeSet sequence: the path, or the pair of a rename
EntryOf(p) ==
    IF IsRenameTarget(p) THEN RenameSourceOf(p) \o <<" ", "-", ">", " ">> \o p ELSE p

ModifiedCodes == {<<" ", "M">>, <<"M", " ">>, <<"M", "M">>}

\* the codes of the decoding table
TableCodes ==
    ModifiedCodes \cup {<<"A", " ">>, <<"?", "?">>, <<" ", "D">>, <<"D", " ">>, <<"R", " ">>}

Disjoint(s, t) == SeqToSet(s) \cap SeqToSet(t) = {}

NoDuplicates(s) == \A j, k \in 1..Len(s) : j # k => s[j] # s[k]

\* the diagnostics of a result: the key "diagnostics", when the result has it
Diagnostics(r) == IF "diagnostics" \in DOMAIN r THEN r.diagnostics ELSE <<>>

\* the paths the working tree reports, none of them with another code than a
\* modified one
ReportedSet == {p \in Paths : Reported(p)}

OnlyModifiedReported ==
    isRepo /\ \A p \in ReportedSet : Slots(p) \in ModifiedCodes

(* ------------------------------- claims -------------------------------- *)

\* C1: for every strategy, manifest and working-tree status, the added,
\* modified, deleted and conflicts sequences of a returned result are
\* pairwise disjoint: no entry occurs in more than one of the four.
C1_Disjointness ==
    Done =>
        /\ Disjoint(Changes.added, Changes.modified)
        /\ Disjoint(Changes.added, Changes.deleted)
        /\ Disjoint(Changes.added, Changes.conflicts)
        /\ Disjoint(Changes.modified, Changes.deleted)
        /\ Disjoint(Changes.modified, Changes.conflicts)
        /\ Disjoint(Changes.deleted, Changes.conflicts)

\* a merge pass that filled two sequences, one of them from a path whose two
\* slots name two different branches of the classification (AM)
C1_Witness ==
    /\ Done /\ strategyArg = "merge"
    /\ Changes.added # <<>> /\ Changes.modified # <<>>
    /\ \E p \in Paths : Reported(p) /\ Slots(p) = <<"A", "M">>

\* C2: a call with a strategy that is not merge, overwrite or selective fails
\* with UnknownStrategy, issues no status query and never returns success.
C2_UnknownStrategyFails ==
    (Done /\ strategyArg \notin {"merge", "overwrite", "selective"}) =>
        /\ result.status = "UnknownStrategy"
        /\ queries = 0

\* C3: a path matched by the ignore rules appears in none of the four
\* sequences, under every strategy and for every manifest, also one that
\* lists the ignored path.
C3_IgnoredNeverAppears ==
    Done =>
        \A p \in Paths :
            (IgnoreMatch(p) /\ work[p] # 0) => ~InSomeSequence(p)

\* C4: under merge, when the working tree reports exactly a set S of paths,
\* each with code " M", "M " or "MM", modified holds every path of S exactly
\* once and nothing else, and added, deleted and conflicts are empty (all four
\* are empty for a clean tree).
C4_MergeModifiedExactly ==
    (Done /\ strategyArg = "merge" /\ OnlyModifiedReported) =>
        /\ SeqToSet(Changes.modified) = ReportedSet
        /\ NoDuplicates(Changes.modified)
        /\ Changes.added = <<>>
        /\ Changes.deleted = <<>>
        /\ Changes.conflicts = <<>>

\* a merge pass over a tree that reports MM for one path and " M" for another
C4_Witness ==
    /\ Done /\ strategyArg = "merge" /\ OnlyModifiedReported
    /\ \E p, q \in ReportedSet : Slots(p) = <<"M", "M">> /\ Slots(q) = <<" ", "M">>
    /\ Len(Changes.modified) = 2

\* C5: under merge, every reported path that is staged-new or untracked is in
\* added, and every reported path that is deleted in the index slot or in the
\* worktree slot is in deleted, whatever the other slot holds.
C5_MergeAddedDeleted ==
    (Done /\ strategyArg = "merge") =>
        \A p \in Paths :
            Reported(p) =>
                /\ (Slots(p)[1] = "A" \/ Slots(p) = <<"?", "?">>) => InAdded(EntryOf(p))
                /\ (Slots(p)[1] = "D" \/ Slots(p)[2] = "D") => InDeleted(EntryOf(p))

\* C6: under merge, a rename reported with code "R " is recorded: the new path
\* is in added and the old path in deleted, or the pair is in one of the
\* four sequences; it is never absent from all of them.
C6_MergeRenameRecorded ==
    (Done /\ strategyArg = "merge") =>
        \A q \in Paths :
            (Reported(q) /\ Slots(q) = <<"R", " ">>) =>
                \/ InAdded(q) /\ InDeleted(RenameSourceOf(q))
                \/ InSomeSequence(EntryOf(q))

\* C7: under overwrite, modified is exactly the manifest paths the working
\* tree reports a status for, added is exactly the manifest paths it reports
\* none for, deleted and conflicts are empty, and no path that is not in the
\* manifest appears in a sequence.
C7_OverwriteExactly ==
    (Done /\ strategyArg = "overwrite") =>
        /\ SeqToSet(Changes.modified) = {p \in SeqToSet(manifest) : Reported(p)}
        /\ SeqToSet(Changes.added) = {p \in SeqToSet(manifest) : ~Reported(p)}
        /\ Changes.deleted = <<>>
        /\ Changes.conflicts = <<>>
        /\ AllEntries \subseteq SeqToSet(manifest)

\* C8: for every strategy, a reported path whose two-character code is not in
\* the decoding table is named in the result's diagnostics and appears in
\* none of the four sequences.
C8_UnknownCodeDiagnosed ==
    Done =>
        \A p \in Paths :
            (Reported(p) /\ Slots(p) \notin TableCodes) =>
                /\ EntryOf(p) \in SeqToSet(Diagnostics(result))
                /\ ~InSomeSequence(EntryOf(p))

\* C9: when the status query fails (the root is not a version-controlled
\* directory), the returned result has status failure, not success.
C9_QueryFailureReported ==
    (Done /\ ~isRepo) => result.status = "failure"

\* C10: under selective, a reported path is admitted into a sequence if and
\* only if it ends with ".py"; a path that does not is in none of the
\* four sequences, nothing else is admitted, and the status stays success.
C10_SelectiveSuffix ==
    (Done /\ strategyArg = "selective") =>
        /\ result.status = "success"
        /\ \A p \in Paths :
              Reported(p) =>
                  (InSomeSequence(EntryOf(p)) <=> EndsWith(p, <<".", "p", "y">>))
        /\ \A p \in Paths : ~EndsWith(p, <<".", "p", "y">>) => ~InSomeSequence(p)
        /\ AllEntries \subseteq {EntryOf(p) : p \in ReportedSet}

\* a selective pass over a tree that reports a ".py" path and another path
C10_Witness ==
    /\ Done /\ strategyArg = "selective"
    /\ Reported(A_PY) /\ Reported(B_MD)
    /\ InModified(EntryOf(A_PY))
    /\ ~InSomeSequence(EntryOf(B_MD))

\* C11: after any sequence of create_todo, update_todo and delete_todo
\* requests from the initial two todos, no two todos of the list have the same
\* id, so an id returned by create_todo names at most one stored todo.
C11_UniqueTodoIds ==
    \A j, k \in 1..Len(todos) : j # k => todos[j].id # todos[k].id

====
